---- MODULE Spec2Model ----
(***************************************************************************)
(* IRPlan (crates/polars-plan/src/plans/ir/mod.rs): an arena-allocated     *)
(* logical plan, and its two structural transforms                         *)
(*   to_template  (DataFrameScan  -> PlaceholderScan)                      *)
(*   bind_data / bind_to_df  (PlaceholderScan -> the supplied data node)   *)
(*                                                                         *)
(* A Node is an index into an Arena.  Arenas are sequences; the model's    *)
(* handles are 1-based where the Rust ones are 0-based.                    *)
(***************************************************************************)
EXTENDS Integers, Sequences, FiniteSets, TLC

(***************************************************************************)
(* Bounds of the model.                                                    *)
(***************************************************************************)
\* longest IR arena of a source plan
MaxNodes == 3
\* longest input list of Union / HConcat / SinkMultiple / ExtContext.contexts
MaxInputs == 2

(***************************************************************************)
(* Option<T>, Schema, DataFrame.                                           *)
(***************************************************************************)
None == <<>>
Some(x) == <<x>>

Field(name, dtype) == [name |-> name, dtype |-> dtype]

\* Schema::len(): the number of columns
SchemaLen(schema) == Len(schema)

SchemaA == <<Field("a", "Int")>>
SchemaAB == <<Field("a", "Int"), Field("b", "Str")>>
\* as many columns as SchemaAB, other names and types
SchemaXY == <<Field("x", "Str"), Field("y", "Int")>>
SchemaABC == <<Field("a", "Int"), Field("b", "Str"), Field("c", "Int")>>

DataFrame(id, schema) == [id |-> id, schema |-> schema]

\* DataFrame::schema()
DfSchema(df) == df.schema

\* the frames held by the DataFrameScan leaves of source plans
PlanFrames == {DataFrame("p1", SchemaA), DataFrame("p2", SchemaAB)}

\* the frames a caller binds a template to
BindFrames ==
    {DataFrame("d1", SchemaA), DataFrame("d2", SchemaXY), DataFrame("d3", SchemaABC)}

\* the projection a source plan's leaf records: none on a one-column schema,
\* the first column on a wider one
OutputSchemaOf(schema) ==
    IF Len(schema) <= 1 THEN None ELSE Some(SubSeq(schema, 1, 1))

(***************************************************************************)
(* The IR variants (enum IR).  Expression payloads (ExprIR) are handles    *)
(* into the expression arena.                                              *)
(***************************************************************************)
Slice(input, offset, len) ==
    [kind |-> "Slice", input |-> input, offset |-> offset, len |-> len]

Filter(input, predicate) ==
    [kind |-> "Filter", input |-> input, predicate |-> predicate]

Scan(sources, output_schema) ==
    [kind |-> "Scan", sources |-> sources, output_schema |-> output_schema]

DataFrameScan(df, schema, output_schema) ==
    [kind |-> "DataFrameScan", df |-> df, schema |-> schema,
     output_schema |-> output_schema]

PlaceholderScan(schema, output_schema) ==
    [kind |-> "PlaceholderScan", schema |-> schema, output_schema |-> output_schema]

SimpleProjection(input, columns) ==
    [kind |-> "SimpleProjection", input |-> input, columns |-> columns]

Select(input, expr, schema, options) ==
    [kind |-> "Select", input |-> input, expr |-> expr, schema |-> schema,
     options |-> options]

Sort(input, by_column, slice, sort_options) ==
    [kind |-> "Sort", input |-> input, by_column |-> by_column, slice |-> slice,
     sort_options |-> sort_options]

Cache(input, id) ==
    [kind |-> "Cache", input |-> input, id |-> id]

GroupBy(input, keys, aggs, schema, maintain_order, options, apply) ==
    [kind |-> "GroupBy", input |-> input, keys |-> keys, aggs |-> aggs,
     schema |-> schema, maintain_order |-> maintain_order, options |-> options,
     apply |-> apply]

Join(input_left, input_right, schema, left_on, right_on, options) ==
    [kind |-> "Join", input_left |-> input_left, input_right |-> input_right,
     schema |-> schema, left_on |-> left_on, right_on |-> right_on,
     options |-> options]

HStack(input, exprs, schema, options) ==
    [kind |-> "HStack", input |-> input, exprs |-> exprs, schema |-> schema,
     options |-> options]

Distinct(input, options) ==
    [kind |-> "Distinct", input |-> input, options |-> options]

MapFunction(input, function) ==
    [kind |-> "MapFunction", input |-> input, function |-> function]

Union(inputs, options) ==
    [kind |-> "Union", inputs |-> inputs, options |-> options]

HConcat(inputs, schema, options) ==
    [kind |-> "HConcat", inputs |-> inputs, schema |-> schema, options |-> options]

ExtContext(input, contexts, schema) ==
    [kind |-> "ExtContext", input |-> input, contexts |-> contexts,
     schema |-> schema]

Sink(input, payload) ==
    [kind |-> "Sink", input |-> input, payload |-> payload]

SinkMultiple(inputs) ==
    [kind |-> "SinkMultiple", inputs |-> inputs]

MergeSorted(input_left, input_right, key) ==
    [kind |-> "MergeSorted", input_left |-> input_left,
     input_right |-> input_right, key |-> key]

Invalid == [kind |-> "Invalid"]

\* the variants by the fields that hold their input handles
SingleKinds ==
    {"Slice", "Filter", "Select", "Sort", "Cache", "GroupBy", "HStack", "Distinct",
     "MapFunction", "SimpleProjection", "Sink"}
PairKinds == {"Join", "MergeSorted"}
ListKinds == {"Union", "HConcat", "SinkMultiple"}
LeafKinds == {"Scan", "DataFrameScan", "PlaceholderScan", "Invalid"}

(***************************************************************************)
(* Arena<T>.                                                               *)
(***************************************************************************)
\* Arena::add: append, return the handle of the new entry
ArenaAdd(arena, value) == [arena |-> Append(arena, value), node |-> Len(arena) + 1]

\* Arena::get succeeds on the handles of the arena's entries, panics on others
InArena(arena, node) == node \in DOMAIN arena

(***************************************************************************)
(* The plans the transforms are called on.                                 *)
(***************************************************************************)
\* the expression arena of every source plan: two expression nodes
SourceExprArena == <<"col(a)", "lit(1)">>

\* the sequences over S of length lo..hi
SeqsOfLen(S, lo, hi) == UNION {[1..k -> S] : k \in lo..hi}

LeafIRs ==
    {Scan("file.parquet", None), Invalid}
    \cup {DataFrameScan(df, DfSchema(df), OutputSchemaOf(DfSchema(df))) : df \in PlanFrames}
    \cup {PlaceholderScan(DfSchema(df), OutputSchemaOf(DfSchema(df))) : df \in PlanFrames}

\* the nodes that can follow `nodes` in an arena: every input is an earlier
\* handle; a Union, HConcat or SinkMultiple has at least one input
OpIRs(nodes) ==
    {Slice(i, 1, 10) : i \in nodes}
    \cup {Filter(i, 1) : i \in nodes}
    \cup {SimpleProjection(i, SchemaA) : i \in nodes}
    \cup {Select(i, <<1, 2>>, SchemaA, "run_parallel") : i \in nodes}
    \cup {Sort(i, <<1>>, Some(<<0, 5>>), "descending") : i \in nodes}
    \cup {Cache(i, 7) : i \in nodes}
    \cup {GroupBy(i, <<1>>, <<2>>, SchemaAB, TRUE, "dynamic", None) : i \in nodes}
    \cup {HStack(i, <<2>>, SchemaAB, "cse") : i \in nodes}
    \cup {Distinct(i, "keep_first") : i \in nodes}
    \cup {MapFunction(i, "rechunk") : i \in nodes}
    \cup {Sink(i, "memory") : i \in nodes}
    \cup {Join(l, r, SchemaAB, <<1>>, <<2>>, "inner") : l \in nodes, r \in nodes}
    \cup {MergeSorted(l, r, "a") : l \in nodes, r \in nodes}
    \cup {Union(s, "parallel") : s \in SeqsOfLen(nodes, 1, MaxInputs)}
    \cup {HConcat(s, SchemaAB, "strict") : s \in SeqsOfLen(nodes, 1, MaxInputs)}
    \cup {SinkMultiple(s) : s \in SeqsOfLen(nodes, 1, MaxInputs)}
    \cup {ExtContext(i, s, SchemaAB) : i \in nodes, s \in SeqsOfLen(nodes, 0, MaxInputs)}

RECURSIVE ArenasOfLen(_)
ArenasOfLen(n) ==
    IF n = 0 THEN {<<>>}
    ELSE {Append(a, ir) : a \in ArenasOfLen(n - 1), ir \in LeafIRs \cup OpIRs(1..(n - 1))}

SourceArenas == UNION {ArenasOfLen(n) : n \in 0..MaxNodes}

(***************************************************************************)
(* to_template: IRPlan::convert_to_placeholder.                            *)
(* The recursion threads the destination arena; a result is                *)
(*   [st |-> "ok", node, arena]   or   [st |-> "panic", arena]             *)
(* (Arena::get panics on a handle that is no entry of the arena).          *)
(***************************************************************************)
Done(r) == [st |-> "ok", node |-> r.node, arena |-> r.arena]
Panicked(arena) == [st |-> "panic", arena |-> arena]

\* a slip in the DataFrameScan arm: the projection is not carried over
template_leaf_without_projection(ir) == PlaceholderScan(ir.schema, None)

\* the DataFrameScan arm: the placeholder that takes the leaf's place (no data)
template_leaf(ir) == PlaceholderScan(ir.schema, ir.output_schema)

\* a slip in the Join arm: the two inputs change places
template_join_swapped(ir, new_left, new_right) ==
    Join(new_right, new_left, ir.schema, ir.left_on, ir.right_on, ir.options)

\* the Join arm's new node
template_join(ir, new_left, new_right) ==
    Join(new_left, new_right, ir.schema, ir.left_on, ir.right_on, ir.options)

\* a slip in the Cache arm: the node is given an identifier of its own
template_cache_with_new_id(ir, new_input) == Cache(new_input, ir.id + 1)

\* the Cache arm's new node
template_cache(ir, new_input) == Cache(new_input, ir.id)

\* a slip in the default arm: the sentinel is taken for unreachable!()
template_clone_rejects_invalid(ir, new_arena) ==
    IF ir.kind = "Invalid" THEN Panicked(new_arena) ELSE Done(ArenaAdd(new_arena, ir))

\* the default arm `_ => ir.clone()`, then new_arena.add(new_ir)
template_clone(ir, new_arena) == Done(ArenaAdd(new_arena, ir))

RECURSIVE convert_to_placeholder(_, _, _)
RECURSIVE convert_inputs(_, _, _)

\* inputs.iter().map(|&input| Self::convert_to_placeholder(..)).collect():
\* left to right, each call allocating into the arena the previous one left
convert_inputs(inputs, old_arena, new_arena) ==
    IF inputs = <<>> THEN [st |-> "ok", nodes |-> <<>>, arena |-> new_arena]
    ELSE LET r == convert_to_placeholder(Head(inputs), old_arena, new_arena) IN
         IF r.st # "ok" THEN r
         ELSE LET rest == convert_inputs(Tail(inputs), old_arena, r.arena) IN
              IF rest.st # "ok" THEN rest
              ELSE [st |-> "ok", nodes |-> <<r.node>> \o rest.nodes,
                    arena |-> rest.arena]

convert_to_placeholder(node, old_arena, new_arena) ==
    IF ~InArena(old_arena, node) THEN Panicked(new_arena)
    ELSE
    LET ir == old_arena[node]
        one == convert_to_placeholder(ir.input, old_arena, new_arena)
        left == convert_to_placeholder(ir.input_left, old_arena, new_arena)
        right == convert_to_placeholder(ir.input_right, old_arena, left.arena)
        many == convert_inputs(ir.inputs, old_arena, new_arena)
        ctxs == convert_inputs(ir.contexts, old_arena, one.arena)
    IN
    CASE ir.kind = "DataFrameScan" ->
           Done(ArenaAdd(new_arena, template_leaf(ir)))
      [] ir.kind = "Select" ->
           IF one.st # "ok" THEN one
           ELSE Done(ArenaAdd(one.arena,
                              Select(one.node, ir.expr, ir.schema, ir.options)))
      [] ir.kind = "Filter" ->
           IF one.st # "ok" THEN one
           ELSE Done(ArenaAdd(one.arena, Filter(one.node, ir.predicate)))
      [] ir.kind = "Slice" ->
           IF one.st # "ok" THEN one
           ELSE Done(ArenaAdd(one.arena, Slice(one.node, ir.offset, ir.len)))
      [] ir.kind = "GroupBy" ->
           IF one.st # "ok" THEN one
           ELSE Done(ArenaAdd(one.arena,
                              GroupBy(one.node, ir.keys, ir.aggs, ir.schema,
                                      ir.maintain_order, ir.options, ir.apply)))
      [] ir.kind = "Join" ->
           IF left.st # "ok" THEN left
           ELSE IF right.st # "ok" THEN right
           ELSE Done(ArenaAdd(right.arena, template_join(ir, left.node, right.node)))
      [] ir.kind = "HStack" ->
           IF one.st # "ok" THEN one
           ELSE Done(ArenaAdd(one.arena,
                              HStack(one.node, ir.exprs, ir.schema, ir.options)))
      [] ir.kind = "SimpleProjection" ->
           IF one.st # "ok" THEN one
           ELSE Done(ArenaAdd(one.arena, SimpleProjection(one.node, ir.columns)))
      [] ir.kind = "Sort" ->
           IF one.st # "ok" THEN one
           ELSE Done(ArenaAdd(one.arena,
                              Sort(one.node, ir.by_column, ir.slice, ir.sort_options)))
      [] ir.kind = "Distinct" ->
           IF one.st # "ok" THEN one
           ELSE Done(ArenaAdd(one.arena, Distinct(one.node, ir.options)))
      [] ir.kind = "MapFunction" ->
           IF one.st # "ok" THEN one
           ELSE Done(ArenaAdd(one.arena, MapFunction(one.node, ir.function)))
      [] ir.kind = "Cache" ->
           IF one.st # "ok" THEN one
           ELSE Done(ArenaAdd(one.arena, template_cache(ir, one.node)))
      [] ir.kind = "Union" ->
           IF many.st # "ok" THEN many
           ELSE Done(ArenaAdd(many.arena, Union(many.nodes, ir.options)))
      [] ir.kind = "HConcat" ->
           IF many.st # "ok" THEN many
           ELSE Done(ArenaAdd(many.arena, HConcat(many.nodes, ir.schema, ir.options)))
      [] ir.kind = "ExtContext" ->
           IF one.st # "ok" THEN one
           ELSE IF ctxs.st # "ok" THEN ctxs
           ELSE Done(ArenaAdd(ctxs.arena, ExtContext(one.node, ctxs.nodes, ir.schema)))
      [] ir.kind = "Sink" ->
           IF one.st # "ok" THEN one
           ELSE Done(ArenaAdd(one.arena, Sink(one.node, ir.payload)))
      [] ir.kind = "SinkMultiple" ->
           IF many.st # "ok" THEN many
           ELSE Done(ArenaAdd(many.arena, SinkMultiple(many.nodes)))
      [] ir.kind = "MergeSorted" ->
           IF left.st # "ok" THEN left
           ELSE IF right.st # "ok" THEN right
           ELSE Done(ArenaAdd(right.arena,
                              MergeSorted(left.node, right.node, ir.key)))
      \* nodes without inputs, or already placeholders: ir.clone()
      [] OTHER -> template_clone(ir, new_arena)

IRPlan(top, ir_arena, e_arena) ==
    [lp_top |-> top, lp_arena |-> ir_arena, expr_arena |-> e_arena]

\* Result values of the calls
Ok(plan) == [tag |-> "Ok", plan |-> plan]
Panic == [tag |-> "Panic"]

\* a slip in to_template: the new arena starts as a copy of the source's
to_template_over_source_copy(self) ==
    LET r == convert_to_placeholder(self.lp_top, self.lp_arena, self.lp_arena) IN
    IF r.st = "panic" THEN Panic
    ELSE Ok(IRPlan(r.node, r.arena, self.expr_arena))

\* a slip in to_template: the source's root handle is kept
to_template_with_old_top(self) ==
    LET r == convert_to_placeholder(self.lp_top, self.lp_arena, <<>>) IN
    IF r.st = "panic" THEN Panic
    ELSE Ok(IRPlan(self.lp_top, r.arena, self.expr_arena))

\* IRPlan::to_template(&self)
to_template(self) ==
    LET r == convert_to_placeholder(self.lp_top, self.lp_arena, <<>>) IN
    IF r.st = "panic" THEN Panic
    ELSE Ok(IRPlan(r.node, r.arena, self.expr_arena))

(***************************************************************************)
(* bind_data: IRPlan::replace_placeholder.  A result is                    *)
(*   [st |-> "ok", node, arena], [st |-> "err", err, arena] (the `?` and   *)
(*   polars_bail! path) or [st |-> "panic", arena].                        *)
(***************************************************************************)
\* polars_bail!(ComputeError: "bind_data requires data to be a DataFrameScan")
ComputeError == [error |-> "ComputeError",
                 msg |-> "bind_data requires data to be a DataFrameScan"]

\* polars_bail!(SchemaMismatch: "... template expects {} columns, data has {}")
SchemaMismatch(expected, got) ==
    [error |-> "SchemaMismatch", expected |-> expected, got |-> got]

Failed(err, arena) == [st |-> "err", err |-> err, arena |-> arena]

RECURSIVE replace_placeholder(_, _, _, _, _)
RECURSIVE replace_inputs(_, _, _, _, _)

\* inputs.iter().map(..).collect::<PolarsResult<_>>()?: left to right, stopping
\* at the first Err
replace_inputs(inputs, data_node, d_arena, template_arena, new_arena) ==
    IF inputs = <<>> THEN [st |-> "ok", nodes |-> <<>>, arena |-> new_arena]
    ELSE LET r == replace_placeholder(Head(inputs), data_node, d_arena,
                                      template_arena, new_arena) IN
         IF r.st # "ok" THEN r
         ELSE LET rest == replace_inputs(Tail(inputs), data_node, d_arena,
                                         template_arena, r.arena) IN
              IF rest.st # "ok" THEN rest
              ELSE [st |-> "ok", nodes |-> <<r.node>> \o rest.nodes,
                    arena |-> rest.arena]

\* a slip in the validation: the schemas are compared, not their lengths
schema_mismatch_by_equality(schema, data_schema) == schema # data_schema

\* the schema validation: schema.len() != data_schema.len()
schema_mismatch(schema, data_schema) == SchemaLen(schema) # SchemaLen(data_schema)

\* the Join arm's new node
bind_join(ir, new_left, new_right) ==
    Join(new_left, new_right, ir.schema, ir.left_on, ir.right_on, ir.options)

\* a slip in the PlaceholderScan arm: the placeholder is cloned, not the data
bind_placeholder_clones_placeholder(ir, data_node, d_arena, new_arena) ==
    IF ~InArena(d_arena, data_node) THEN Panicked(new_arena)
    ELSE LET data_ir == d_arena[data_node] IN
         IF data_ir.kind # "DataFrameScan" THEN Failed(ComputeError, new_arena)
         ELSE IF schema_mismatch(ir.schema, data_ir.schema)
         THEN Failed(SchemaMismatch(SchemaLen(ir.schema), SchemaLen(data_ir.schema)),
                     new_arena)
         ELSE Done(ArenaAdd(new_arena, ir))

\* a slip in the PlaceholderScan arm: the two counts of the message change places
bind_placeholder_swaps_counts(ir, data_node, d_arena, new_arena) ==
    IF ~InArena(d_arena, data_node) THEN Panicked(new_arena)
    ELSE LET data_ir == d_arena[data_node] IN
         IF data_ir.kind # "DataFrameScan" THEN Failed(ComputeError, new_arena)
         ELSE IF schema_mismatch(ir.schema, data_ir.schema)
         THEN Failed(SchemaMismatch(SchemaLen(data_ir.schema), SchemaLen(ir.schema)),
                     new_arena)
         ELSE Done(ArenaAdd(new_arena, data_ir))

\* a slip in the PlaceholderScan arm: the projections are validated too
bind_placeholder_checks_projection(ir, data_node, d_arena, new_arena) ==
    IF ~InArena(d_arena, data_node) THEN Panicked(new_arena)
    ELSE LET data_ir == d_arena[data_node] IN
         IF data_ir.kind # "DataFrameScan" THEN Failed(ComputeError, new_arena)
         ELSE IF \/ schema_mismatch(ir.schema, data_ir.schema)
                 \/ ir.output_schema # data_ir.output_schema
         THEN Failed(SchemaMismatch(SchemaLen(ir.schema), SchemaLen(data_ir.schema)),
                     new_arena)
         ELSE Done(ArenaAdd(new_arena, data_ir))

\* a slip in the PlaceholderScan arm: a placeholder is accepted as data
bind_placeholder_accepts_placeholder(ir, data_node, d_arena, new_arena) ==
    IF ~InArena(d_arena, data_node) THEN Panicked(new_arena)
    ELSE LET data_ir == d_arena[data_node] IN
         IF data_ir.kind \notin {"DataFrameScan", "PlaceholderScan"}
         THEN Failed(ComputeError, new_arena)
         ELSE IF schema_mismatch(ir.schema, data_ir.schema)
         THEN Failed(SchemaMismatch(SchemaLen(ir.schema), SchemaLen(data_ir.schema)),
                     new_arena)
         ELSE Done(ArenaAdd(new_arena, data_ir))

\* a slip in the default arm: a frame already in the template loses its projection
bind_clone_without_projection(ir, new_arena) ==
    Done(ArenaAdd(new_arena,
                  IF ir.kind = "DataFrameScan"
                  THEN DataFrameScan(ir.df, ir.schema, None)
                  ELSE ir))

\* the default arm `_ => ir.clone()`, then new_arena.add(new_ir)
bind_clone(ir, new_arena) == Done(ArenaAdd(new_arena, ir))

\* the PlaceholderScan arm
bind_placeholder(ir, data_node, d_arena, new_arena) ==
    IF ~InArena(d_arena, data_node) THEN Panicked(new_arena)
    ELSE LET data_ir == d_arena[data_node] IN
         IF data_ir.kind # "DataFrameScan" THEN Failed(ComputeError, new_arena)
         ELSE IF schema_mismatch(ir.schema, data_ir.schema)
         THEN Failed(SchemaMismatch(SchemaLen(ir.schema), SchemaLen(data_ir.schema)),
                     new_arena)
         ELSE Done(ArenaAdd(new_arena, data_ir))

replace_placeholder(node, data_node, d_arena, template_arena, new_arena) ==
    IF ~InArena(template_arena, node) THEN Panicked(new_arena)
    ELSE
    LET ir == template_arena[node]
        one == replace_placeholder(ir.input, data_node, d_arena, template_arena,
                                   new_arena)
        left == replace_placeholder(ir.input_left, data_node, d_arena,
                                    template_arena, new_arena)
        right == replace_placeholder(ir.input_right, data_node, d_arena,
                                     template_arena, left.arena)
        many == replace_inputs(ir.inputs, data_node, d_arena, template_arena,
                               new_arena)
        ctxs == replace_inputs(ir.contexts, data_node, d_arena, template_arena,
                               one.arena)
    IN
    CASE ir.kind = "PlaceholderScan" ->
           bind_placeholder(ir, data_node, d_arena, new_arena)
      [] ir.kind = "Select" ->
           IF one.st # "ok" THEN one
           ELSE Done(ArenaAdd(one.arena,
                              Select(one.node, ir.expr, ir.schema, ir.options)))
      [] ir.kind = "Filter" ->
           IF one.st # "ok" THEN one
           ELSE Done(ArenaAdd(one.arena, Filter(one.node, ir.predicate)))
      [] ir.kind = "Slice" ->
           IF one.st # "ok" THEN one
           ELSE Done(ArenaAdd(one.arena, Slice(one.node, ir.offset, ir.len)))
      [] ir.kind = "GroupBy" ->
           IF one.st # "ok" THEN one
           ELSE Done(ArenaAdd(one.arena,
                              GroupBy(one.node, ir.keys, ir.aggs, ir.schema,
                                      ir.maintain_order, ir.options, ir.apply)))
      [] ir.kind = "Join" ->
           IF left.st # "ok" THEN left
           ELSE IF right.st # "ok" THEN right
           ELSE Done(ArenaAdd(right.arena, bind_join(ir, left.node, right.node)))
      [] ir.kind = "HStack" ->
           IF one.st # "ok" THEN one
           ELSE Done(ArenaAdd(one.arena,
                              HStack(one.node, ir.exprs, ir.schema, ir.options)))
      [] ir.kind = "SimpleProjection" ->
           IF one.st # "ok" THEN one
           ELSE Done(ArenaAdd(one.arena, SimpleProjection(one.node, ir.columns)))
      [] ir.kind = "Sort" ->
           IF one.st # "ok" THEN one
           ELSE Done(ArenaAdd(one.arena,
                              Sort(one.node, ir.by_column, ir.slice, ir.sort_options)))
      [] ir.kind = "Distinct" ->
           IF one.st # "ok" THEN one
           ELSE Done(ArenaAdd(one.arena, Distinct(one.node, ir.options)))
      [] ir.kind = "MapFunction" ->
           IF one.st # "ok" THEN one
           ELSE Done(ArenaAdd(one.arena, MapFunction(one.node, ir.function)))
      [] ir.kind = "Cache" ->
           IF one.st # "ok" THEN one
           ELSE Done(ArenaAdd(one.arena, Cache(one.node, ir.id)))
      [] ir.kind = "Union" ->
           IF many.st # "ok" THEN many
           ELSE Done(ArenaAdd(many.arena, Union(many.nodes, ir.options)))
      [] ir.kind = "HConcat" ->
           IF many.st # "ok" THEN many
           ELSE Done(ArenaAdd(many.arena, HConcat(many.nodes, ir.schema, ir.options)))
      [] ir.kind = "ExtContext" ->
           IF one.st # "ok" THEN one
           ELSE IF ctxs.st # "ok" THEN ctxs
           ELSE Done(ArenaAdd(ctxs.arena, ExtContext(one.node, ctxs.nodes, ir.schema)))
      [] ir.kind = "Sink" ->
           IF one.st # "ok" THEN one
           ELSE Done(ArenaAdd(one.arena, Sink(one.node, ir.payload)))
      [] ir.kind = "SinkMultiple" ->
           IF many.st # "ok" THEN many
           ELSE Done(ArenaAdd(many.arena, SinkMultiple(many.nodes)))
      [] ir.kind = "MergeSorted" ->
           IF left.st # "ok" THEN left
           ELSE IF right.st # "ok" THEN right
           ELSE Done(ArenaAdd(right.arena,
                              MergeSorted(left.node, right.node, ir.key)))
      \* nodes without inputs: ir.clone()
      [] OTHER -> bind_clone(ir, new_arena)

Err(err) == [tag |-> "Err", err |-> err]

\* IRPlan::bind_data(&self, data_node, data_arena): the new arena is dropped on Err
bind_data(self, data_node, d_arena) ==
    LET r == replace_placeholder(self.lp_top, data_node, d_arena, self.lp_arena, <<>>)
    IN
    CASE r.st = "panic" -> Panic
      [] r.st = "err" -> Err(r.err)
      [] OTHER -> Ok(IRPlan(r.node, r.arena, self.expr_arena))

\* a slip in bind_to_df: the leaf is given the projection of a source leaf
df_data_arena_with_projection(df) ==
    ArenaAdd(<<>>, DataFrameScan(df, DfSchema(df), OutputSchemaOf(DfSchema(df))))

\* a slip in bind_to_df: the leaf's schema is left empty
df_data_arena_without_schema(df) == ArenaAdd(<<>>, DataFrameScan(df, <<>>, None))

\* the one-node data arena IRPlan::bind_to_df builds
df_data_arena(df) == ArenaAdd(<<>>, DataFrameScan(df, DfSchema(df), None))

\* IRPlan::bind_to_df(&self, df)
bind_to_df(self, df) ==
    LET d == df_data_arena(df) IN bind_data(self, d.node, d.arena)

(***************************************************************************)
(* State: the plan the calls are made on (self), the caller's data arena,  *)
(* the template made from self, and the last bind call with its result.    *)
(***************************************************************************)
VARIABLES lp_top, lp_arena, expr_arena, data_arena, template, call, bound

\* the invocations of a transform that are under way, taken one Arena::get or
\* Arena::add at a time, and the destination arena each of them allocates
VARIABLES walk, new_arena

\* an exponentially weighted mean: the arguments its state was made with, the
\* state, and every input given to and every output returned by its updates
VARIABLES ewm_args, state, xs, out

planVars == <<lp_top, lp_arena, expr_arena, data_arena, template, call, bound>>
walkVars == <<walk, new_arena>>
ewmVars == <<ewm_args, state, xs, out>>

vars == <<planVars, walkVars, ewmVars>>

\* no exponentially weighted mean has been made
NoEwm == [made |-> FALSE]

EwmUnused ==
    /\ ewm_args = NoEwm
    /\ state = NoEwm
    /\ xs = <<>>
    /\ out = <<>>

Self == IRPlan(lp_top, lp_arena, expr_arena)

NoResult == [tag |-> "None"]
NoCall == [op |-> "none"]
Call(op, on, data) == [op |-> op, on |-> on, data |-> data]

\* the arena a caller of bind_data owns: a projected frame, a placeholder and a
\* node with an input
CallerDataArena ==
    <<DataFrameScan(DataFrame("d2", SchemaXY), SchemaXY, Some(<<Field("y", "Int")>>)),
      PlaceholderScan(SchemaA, None),
      Filter(1, 1)>>

\* a plan as a planner leaves it: the root is the entry added last; an empty
\* arena has no entry for its root handle
Init ==
    /\ lp_arena \in SourceArenas
    /\ lp_top = IF lp_arena = <<>> THEN 1 ELSE Len(lp_arena)
    /\ expr_arena = SourceExprArena
    /\ data_arena = CallerDataArena
    /\ template = NoResult
    /\ call = NoCall
    /\ bound = NoResult
    /\ walk = <<>>
    /\ new_arena = <<>>
    /\ EwmUnused

\* self.to_template(), by a caller that has not bound self
ToTemplate ==
    /\ template = NoResult
    /\ call = NoCall
    /\ template' = to_template(Self)
    /\ UNCHANGED <<lp_top, lp_arena, expr_arena, data_arena, call, bound>>
    /\ UNCHANGED <<walkVars, ewmVars>>

\* self.bind_data(data_node, &data_arena), with a node of the caller's arena
BindData ==
    \E data_node \in DOMAIN data_arena :
        /\ template = NoResult
        /\ bound' = bind_data(Self, data_node, data_arena)
        /\ call' = Call("bind_data", "self", data_arena[data_node])
        /\ UNCHANGED <<lp_top, lp_arena, expr_arena, data_arena, template>>
        /\ UNCHANGED <<walkVars, ewmVars>>

\* template.bind_to_df(df), on the plan to_template returned (the round trip)
BindToDf ==
    /\ template.tag = "Ok"
    /\ \E df \in BindFrames :
        /\ bound' = bind_to_df(template.plan, df)
        /\ call' = Call("bind_to_df", "template", df_data_arena(df).arena[1])
        /\ UNCHANGED <<lp_top, lp_arena, expr_arena, data_arena, template>>
        /\ UNCHANGED <<walkVars, ewmVars>>

Next == ToTemplate \/ BindData \/ BindToDf

Spec == Init /\ [][Next]_vars

(***************************************************************************)
(* Reading a plan: the input handles of a node, the nodes reachable from   *)
(* the root, the plan invariant, and the walk of two plans in step.        *)
(***************************************************************************)
\* the input handles a variant carries, in field order
Inputs(ir) ==
    CASE ir.kind \in SingleKinds -> <<ir.input>>
      [] ir.kind \in PairKinds -> <<ir.input_left, ir.input_right>>
      [] ir.kind \in ListKinds -> ir.inputs
      [] ir.kind = "ExtContext" -> <<ir.input>> \o ir.contexts
      [] OTHER -> <<>>

Range(seq) == {seq[i] : i \in DOMAIN seq}

\* the expression handles a variant's payload carries
ExprRefs(ir) ==
    CASE ir.kind = "Filter" -> {ir.predicate}
      [] ir.kind = "Select" -> Range(ir.expr)
      [] ir.kind = "Sort" -> Range(ir.by_column)
      [] ir.kind = "GroupBy" -> Range(ir.keys) \cup Range(ir.aggs)
      [] ir.kind = "Join" -> Range(ir.left_on) \cup Range(ir.right_on)
      [] ir.kind = "HStack" -> Range(ir.exprs)
      [] OTHER -> {}

RECURSIVE ReachFrom(_, _)
ReachFrom(arena, node) ==
    IF ~InArena(arena, node) THEN {}
    ELSE {node} \cup UNION {ReachFrom(arena, i) : i \in Range(Inputs(arena[node]))}

Reachable(plan) == ReachFrom(plan.lp_arena, plan.lp_top)

\* the plan invariant: the root and every input handle reachable from it index
\* the plan's IR arena, every expression handle its expression arena
ValidPlan(plan) ==
    /\ InArena(plan.lp_arena, plan.lp_top)
    /\ \A n \in Reachable(plan) :
        /\ Range(Inputs(plan.lp_arena[n])) \subseteq DOMAIN plan.lp_arena
        /\ ExprRefs(plan.lp_arena[n]) \subseteq DOMAIN plan.expr_arena

\* the pairs <<s, d>> met when src is walked from s and dst from d in step,
\* i-th input with i-th input; a pair of different arity is not descended
RECURSIVE Pairs(_, _, _, _)
Pairs(src, s, dst, d) ==
    IF ~InArena(src, s) \/ ~InArena(dst, d) THEN {}
    ELSE LET si == Inputs(src[s])
             di == Inputs(dst[d])
         IN {<<s, d>>}
            \cup IF Len(si) # Len(di) THEN {}
                 ELSE UNION {Pairs(src, si[i], dst, di[i]) : i \in DOMAIN si}

PlanPairs(p, q) == Pairs(p.lp_arena, p.lp_top, q.lp_arena, q.lp_top)

\* the two walks cover both plans and meet nodes of equal arity only
InStep(p, q) ==
    LET pairs == PlanPairs(p, q) IN
    /\ {pr[1] : pr \in pairs} = Reachable(p)
    /\ {pr[2] : pr \in pairs} = Reachable(q)
    /\ \A pr \in pairs :
           Len(Inputs(p.lp_arena[pr[1]])) = Len(Inputs(q.lp_arena[pr[2]]))

\* the uses of a handle as an input: <<parent, position>>
InputUses(plan) ==
    UNION {{<<m, i>> : i \in DOMAIN Inputs(plan.lp_arena[m])} : m \in Reachable(plan)}

UsedHandle(plan, use) == Inputs(plan.lp_arena[use[1]])[use[2]]

HasKind(plan, n, kind) == plan.lp_arena[n].kind = kind

\* the plan the last bind call was made on
Receiver == IF call.on = "template" THEN template.plan ELSE Self

BindCalled == call.op \in {"bind_data", "bind_to_df"}

(***************************************************************************)
(* C1.  to_template puts, at the position of every DataFrameScan reachable *)
(* from the root, a PlaceholderScan with that leaf's schema and            *)
(* output_schema; no DataFrameScan is reachable from the result's root.    *)
(***************************************************************************)
C1_TemplateReplacesEveryDataFrameScan ==
    template.tag = "Ok" =>
        LET t == template.plan IN
        /\ InStep(Self, t)
        /\ \A pr \in PlanPairs(Self, t) :
               HasKind(Self, pr[1], "DataFrameScan") =>
                   /\ HasKind(t, pr[2], "PlaceholderScan")
                   /\ t.lp_arena[pr[2]].schema = lp_arena[pr[1]].schema
                   /\ t.lp_arena[pr[2]].output_schema = lp_arena[pr[1]].output_schema
        /\ \A n \in Reachable(t) : ~HasKind(t, n, "DataFrameScan")

\* a template of a Join of two different DataFrameScans, one with a projection
C1_Witness ==
    /\ template.tag = "Ok"
    /\ HasKind(Self, lp_top, "Join")
    /\ HasKind(Self, lp_arena[lp_top].input_left, "DataFrameScan")
    /\ HasKind(Self, lp_arena[lp_top].input_right, "DataFrameScan")
    /\ lp_arena[lp_arena[lp_top].input_left].output_schema = None
    /\ lp_arena[lp_arena[lp_top].input_right].output_schema # None

(***************************************************************************)
(* C2.  A successful bind_data puts a clone of the supplied node at the    *)
(* position of every PlaceholderScan reachable from the template's root,   *)
(* a separate arena entry for every use of a placeholder, and no           *)
(* PlaceholderScan is reachable from the result's root.                    *)
(***************************************************************************)
C2_BindReplacesEveryPlaceholder ==
    (BindCalled /\ bound.tag = "Ok") =>
        LET t == Receiver
            r == bound.plan
            clones == {pr[2] : pr \in {q \in PlanPairs(t, r) :
                                          HasKind(t, q[1], "PlaceholderScan")}}
        IN
        /\ InStep(t, r)
        /\ \A d \in clones : r.lp_arena[d] = call.data
        /\ \A u1, u2 \in InputUses(r) :
               (UsedHandle(r, u1) \in clones /\ UsedHandle(r, u1) = UsedHandle(r, u2))
                   => u1 = u2
        /\ \A p1, p2 \in PlanPairs(t, r) :
               (HasKind(t, p1[1], "PlaceholderScan") /\ p1[2] = p2[2]) => p1[1] = p2[1]
        /\ \A n \in Reachable(r) : ~HasKind(r, n, "PlaceholderScan")

\* a bound Union of two placeholders, and a bound Join that uses one twice
C2_Witness ==
    /\ BindCalled /\ bound.tag = "Ok"
    /\ ValidPlan(Receiver)
    /\ \/ /\ HasKind(Receiver, Receiver.lp_top, "Union")
          /\ Len(Receiver.lp_arena[Receiver.lp_top].inputs) = 2
          /\ Receiver.lp_arena[Receiver.lp_top].inputs[1]
               # Receiver.lp_arena[Receiver.lp_top].inputs[2]
          /\ \A i \in 1..2 :
                 HasKind(Receiver, Receiver.lp_arena[Receiver.lp_top].inputs[i],
                         "PlaceholderScan")

(***************************************************************************)
(* The order of a depth-first, left-to-right walk.                         *)
(***************************************************************************)
RECURSIVE VisitOrder(_, _)
RECURSIVE VisitAll(_, _)

\* the handles in the order the walk from `node` finishes them, a handle once
\* for every path that leads to it
VisitOrder(arena, node) ==
    IF ~InArena(arena, node) THEN <<>>
    ELSE VisitAll(arena, Inputs(arena[node])) \o <<node>>

VisitAll(arena, nodes) ==
    IF nodes = <<>> THEN <<>>
    ELSE VisitOrder(arena, Head(nodes)) \o VisitAll(arena, Tail(nodes))

FilterSeq(seq, S) == SelectSeq(seq, LAMBDA n : n \in S)

\* the reachable placeholders whose column count differs from the data's
MismatchingPlaceholders(plan, data) ==
    {n \in Reachable(plan) :
        /\ HasKind(plan, n, "PlaceholderScan")
        /\ Len(plan.lp_arena[n].schema) # Len(data.schema)}

ReachablePlaceholders(plan) ==
    {n \in Reachable(plan) : HasKind(plan, n, "PlaceholderScan")}

\* the first of them in walk order
FirstMismatching(plan, data) ==
    Head(FilterSeq(VisitOrder(plan.lp_arena, plan.lp_top),
                   MismatchingPlaceholders(plan, data)))

DataIsFrame == call.data.kind = "DataFrameScan"

(***************************************************************************)
(* C3 as stated.  Whichever reachable PlaceholderScan records N columns,   *)
(* N different from the M columns of the supplied DataFrameScan, bind      *)
(* returns SchemaMismatch with expected N and got M.                       *)
(***************************************************************************)
C3_AnyPlaceholderCountReported ==
    (BindCalled /\ DataIsFrame /\ ValidPlan(Receiver)) =>
        \A n \in MismatchingPlaceholders(Receiver, call.data) :
            bound = Err(SchemaMismatch(Len(Receiver.lp_arena[n].schema),
                                       Len(call.data.schema)))

(***************************************************************************)
(* C3, amended.  If some reachable PlaceholderScan records a column count  *)
(* different from the M columns of the supplied DataFrameScan, bind        *)
(* returns no plan but SchemaMismatch, with got M and expected the count   *)
(* of the first such placeholder in depth-first, left-to-right order.      *)
(***************************************************************************)
C3_FirstMismatchReported ==
    (/\ BindCalled /\ DataIsFrame /\ ValidPlan(Receiver)
     /\ MismatchingPlaceholders(Receiver, call.data) # {}) =>
        bound = Err(SchemaMismatch(
                      Len(Receiver.lp_arena[FirstMismatching(Receiver, call.data)].schema),
                      Len(call.data.schema)))

\* two reachable placeholders of different counts, both unlike the data's
C3_Witness ==
    /\ BindCalled /\ DataIsFrame /\ ValidPlan(Receiver)
    /\ bound.tag = "Err"
    /\ \E n, m \in MismatchingPlaceholders(Receiver, call.data) :
           Len(Receiver.lp_arena[n].schema) # Len(Receiver.lp_arena[m].schema)

(***************************************************************************)
(* C4 as stated.  Whenever the supplied node is no DataFrameScan, bind     *)
(* fails with the invalid-bind-target error, whatever the template.        *)
(***************************************************************************)
C4_NonFrameAlwaysRejected ==
    (BindCalled /\ ~DataIsFrame /\ ValidPlan(Receiver)) =>
        bound = Err(ComputeError)

(***************************************************************************)
(* C4, amended.  When the supplied node is no DataFrameScan, bind fails    *)
(* with the invalid-bind-target error and returns no plan if a             *)
(* PlaceholderScan is reachable from the template's root; if none is, the  *)
(* supplied node is never looked at and bind succeeds.                     *)
(***************************************************************************)
C4_NonFrameRejectedAtPlaceholder ==
    (BindCalled /\ ~DataIsFrame /\ ValidPlan(Receiver)) =>
        IF ReachablePlaceholders(Receiver) # {}
        THEN bound = Err(ComputeError)
        ELSE bound.tag = "Ok"

\* a node with an input supplied as data, a placeholder below the root
C4_Witness ==
    /\ BindCalled /\ ValidPlan(Receiver)
    /\ call.data.kind = "Filter"
    /\ bound = Err(ComputeError)
    /\ ~HasKind(Receiver, Receiver.lp_top, "PlaceholderScan")

(***************************************************************************)
(* The round trip.                                                         *)
(***************************************************************************)
InputFields == {"input", "input_left", "input_right", "inputs", "contexts"}

\* the same variant with the same payload, input handles aside
SameButInputs(a, b) ==
    /\ DOMAIN a = DOMAIN b
    /\ \A f \in DOMAIN a \ InputFields : a[f] = b[f]

DataLeaf(ir) == ir.kind \in {"DataFrameScan", "PlaceholderScan"}

\* bind_to_df was called on the template with a frame whose schema is that of
\* a DataFrameScan reachable in the source plan
RoundTripCalled ==
    /\ call.op = "bind_to_df" /\ call.on = "template"
    /\ \E n \in Reachable(Self) :
           /\ HasKind(Self, n, "DataFrameScan")
           /\ lp_arena[n].schema = DfSchema(call.data.df)

\* the plan r is the plan p with every data leaf a DataFrameScan of df
BoundCopyOf(p, r, df) ==
    /\ InStep(p, r)
    /\ \A pr \in PlanPairs(p, r) :
           IF DataLeaf(p.lp_arena[pr[1]])
           THEN r.lp_arena[pr[2]] = DataFrameScan(df, DfSchema(df), None)
           ELSE SameButInputs(p.lp_arena[pr[1]], r.lp_arena[pr[2]])

(***************************************************************************)
(* C5 as stated.  For a plan P with a DataFrameScan of schema S, and       *)
(* whatever other DataFrameScans it has, bind_to_df(to_template(P), df)    *)
(* with df.schema() = S succeeds with a plan of P's shape.                 *)
(***************************************************************************)
C5_RoundTripWhateverOtherLeaves ==
    (RoundTripCalled /\ ReachablePlaceholders(Self) = {}) =>
        /\ bound.tag = "Ok"
        /\ BoundCopyOf(Self, bound.plan, call.data.df)

(***************************************************************************)
(* C5, amended.  For a plan P with a DataFrameScan of schema S in which    *)
(* every reachable DataFrameScan and PlaceholderScan has as many columns   *)
(* as S, bind_to_df(to_template(P), df) with df.schema() = S succeeds with *)
(* a plan of P's shape and payloads in which every such leaf is a          *)
(* DataFrameScan of df.                                                    *)
(***************************************************************************)
C5_RoundTripOfEqualCounts ==
    (/\ RoundTripCalled
     /\ \A n \in Reachable(Self) :
            DataLeaf(lp_arena[n]) =>
                Len(lp_arena[n].schema) = Len(DfSchema(call.data.df))) =>
        /\ bound.tag = "Ok"
        /\ BoundCopyOf(Self, bound.plan, call.data.df)

\* Select over Filter over a DataFrameScan, templated and bound again
C5_Witness ==
    /\ RoundTripCalled
    /\ bound.tag = "Ok"
    /\ HasKind(Self, lp_top, "Select")
    /\ HasKind(Self, lp_arena[lp_top].input, "Filter")
    /\ HasKind(Self, lp_arena[lp_arena[lp_top].input].input, "DataFrameScan")

(***************************************************************************)
(* Topology.  The fringe of a subplan is the sequence of its leaves, left  *)
(* to right, a leaf once for every path that leads to it.                  *)
(***************************************************************************)
RECURSIVE Fringe(_, _)
RECURSIVE FringeAll(_, _)

Fringe(arena, node) ==
    IF ~InArena(arena, node) THEN <<>>
    ELSE IF Inputs(arena[node]) = <<>> THEN <<arena[node]>>
    ELSE FringeAll(arena, Inputs(arena[node]))

FringeAll(arena, nodes) ==
    IF nodes = <<>> THEN <<>>
    ELSE Fringe(arena, Head(nodes)) \o FringeAll(arena, Tail(nodes))

\* what a leaf becomes: under to_template, and under a bind of `data`
TemplatedLeaf(ir) ==
    IF ir.kind = "DataFrameScan" THEN PlaceholderScan(ir.schema, ir.output_schema)
    ELSE ir

BoundLeaf(ir, data) == IF ir.kind = "PlaceholderScan" THEN data ELSE ir

\* node b is node a with its inputs transformed: the variant, the fields that
\* hold inputs and their lengths are a's
SameInputLayout(a, b) ==
    /\ a.kind \notin LeafKinds => b.kind = a.kind
    /\ InputFields \cap DOMAIN a = InputFields \cap DOMAIN b
    /\ \A f \in {"inputs", "contexts"} \cap DOMAIN a : Len(a[f]) = Len(b[f])

TemplateKeepsTopology(p, t) ==
    /\ InStep(p, t)
    /\ \A pr \in PlanPairs(p, t) :
           /\ SameInputLayout(p.lp_arena[pr[1]], t.lp_arena[pr[2]])
           /\ Fringe(t.lp_arena, pr[2])
                = [i \in DOMAIN Fringe(p.lp_arena, pr[1]) |->
                       TemplatedLeaf(Fringe(p.lp_arena, pr[1])[i])]

BindKeepsTopology(t, r, data) ==
    /\ InStep(t, r)
    /\ \A pr \in PlanPairs(t, r) :
           /\ SameInputLayout(t.lp_arena[pr[1]], r.lp_arena[pr[2]])
           /\ Fringe(r.lp_arena, pr[2])
                = [i \in DOMAIN Fringe(t.lp_arena, pr[1]) |->
                       BoundLeaf(Fringe(t.lp_arena, pr[1])[i], data)]

(***************************************************************************)
(* C6.  Both transforms emit, for every node with inputs, a node of the    *)
(* same variant whose input fields have the same lengths, the i-th input   *)
(* being the transform of the source's i-th input (Join's left and right   *)
(* unswapped, input lists in order, ExtContext's input apart from its      *)
(* contexts).                                                              *)
(***************************************************************************)
C6_InputArityAndOrderKept ==
    /\ template.tag = "Ok" => TemplateKeepsTopology(Self, template.plan)
    /\ (BindCalled /\ bound.tag = "Ok") =>
           BindKeepsTopology(Receiver, bound.plan, call.data)

\* a templated Join of a DataFrameScan (left) and a Scan (right)
C6_Witness ==
    /\ template.tag = "Ok"
    /\ HasKind(Self, lp_top, "Join")
    /\ HasKind(Self, lp_arena[lp_top].input_left, "DataFrameScan")
    /\ HasKind(Self, lp_arena[lp_top].input_right, "Scan")
    /\ HasKind(template.plan,
               template.plan.lp_arena[template.plan.lp_top].input_right, "Scan")

(***************************************************************************)
(* C7.  If the source plan satisfies the plan invariant, so does the plan  *)
(* to_template returns and the plan a successful bind returns: the root    *)
(* and every input handle stored in the new IR arena index that arena, and *)
(* the expression arena is the source's.                                   *)
(***************************************************************************)
\* every handle the plan stores, reachable or not, is an entry of its arenas
ClosedPlan(plan) ==
    /\ InArena(plan.lp_arena, plan.lp_top)
    /\ \A n \in DOMAIN plan.lp_arena :
        /\ Range(Inputs(plan.lp_arena[n])) \subseteq DOMAIN plan.lp_arena
        /\ ExprRefs(plan.lp_arena[n]) \subseteq DOMAIN plan.expr_arena

C7_PlanInvariantKept ==
    /\ (ValidPlan(Self) /\ template.tag = "Ok") =>
           /\ ClosedPlan(template.plan)
           /\ template.plan.expr_arena = expr_arena
    /\ (BindCalled /\ ValidPlan(Receiver) /\ bound.tag = "Ok") =>
           /\ ClosedPlan(bound.plan)
           /\ bound.plan.expr_arena = Receiver.expr_arena

\* a template of a plan whose arena holds an entry its root does not reach,
\* so that the new arena is shorter than the source's
C7_Witness ==
    /\ ValidPlan(Self)
    /\ template.tag = "Ok"
    /\ Len(template.plan.lp_arena) < Len(lp_arena)
    /\ ExprRefs(lp_arena[lp_top]) # {}

(***************************************************************************)
(* C8.  No call changes the plan it is made on or the data arena, whether  *)
(* it succeeds or fails, and a bind on a template whose last bind failed   *)
(* succeeds when the data now supplied is a DataFrameScan with the column  *)
(* count of every reachable placeholder.                                   *)
(***************************************************************************)
FitsReceiver(data) ==
    /\ data.kind = "DataFrameScan"
    /\ MismatchingPlaceholders(Receiver, data) = {}

C8_ReceiverUntouchedAndRebindable ==
    [][/\ lp_top' = lp_top /\ lp_arena' = lp_arena /\ expr_arena' = expr_arena
       /\ data_arena' = data_arena
       /\ template.tag = "Ok" => template' = template
       /\ (bound.tag = "Err" /\ call'.on = call.on /\ FitsReceiver(call'.data))
              => bound'.tag = "Ok"]_vars

\* a bind has failed and the same template can be bound to data that fits
C8_Witness ==
    /\ bound.tag = "Err"
    /\ call.on = "template"
    /\ ENABLED (BindToDf /\ bound'.tag = "Ok")

(***************************************************************************)
(* C9.  to_template has no error outcome: on every plan that satisfies the *)
(* plan invariant, whatever its variants, it returns a plan.               *)
(***************************************************************************)
C9_TemplateNeverFails ==
    (ValidPlan(Self) /\ template # NoResult) =>
        /\ template.tag = "Ok"
        /\ InArena(template.plan.lp_arena, template.plan.lp_top)

\* a template of a plan that reaches the Invalid sentinel and a Scan
C9_Witness ==
    /\ template.tag = "Ok"
    /\ \E n, m \in Reachable(Self) :
           HasKind(Self, n, "Invalid") /\ HasKind(Self, m, "Scan")

(***************************************************************************)
(* C10.  The validation compares column counts only: a DataFrameScan with  *)
(* the column count of every reachable placeholder binds, whatever the     *)
(* column names and types and whatever the two output_schemas.             *)
(***************************************************************************)
C10_CountOnlyValidation ==
    (BindCalled /\ ValidPlan(Receiver) /\ FitsReceiver(call.data)) =>
        bound.tag = "Ok"

\* a bound placeholder whose schema and projection differ from the data's
C10_Witness ==
    /\ BindCalled /\ bound.tag = "Ok" /\ DataIsFrame
    /\ \E n \in ReachablePlaceholders(Receiver) :
           /\ Receiver.lp_arena[n].schema # call.data.schema
           /\ Receiver.lp_arena[n].output_schema # None
           /\ call.data.output_schema # None
           /\ Receiver.lp_arena[n].output_schema # call.data.output_schema

(***************************************************************************)
(* C11.  A node without input handles that is not the transform's target   *)
(* leaf is copied as it is: to_template copies Scan and a PlaceholderScan  *)
(* already present, bind copies Scan and a DataFrameScan already present   *)
(* (which the supplied data does not replace).                             *)
(***************************************************************************)
\* every node of p of one of `kinds` meets an equal node of q
CopiedVerbatim(p, q, kinds) ==
    /\ InStep(p, q)
    /\ \A pr \in PlanPairs(p, q) :
           p.lp_arena[pr[1]].kind \in kinds => q.lp_arena[pr[2]] = p.lp_arena[pr[1]]

C11_OtherLeavesCopiedVerbatim ==
    /\ template.tag = "Ok" =>
           CopiedVerbatim(Self, template.plan, {"Scan", "PlaceholderScan"})
    /\ (BindCalled /\ bound.tag = "Ok") =>
           CopiedVerbatim(Receiver, bound.plan, {"Scan", "DataFrameScan"})

\* a bound plan that reaches a placeholder and a projected DataFrameScan which
\* is not the supplied one
C11_Witness ==
    /\ BindCalled /\ bound.tag = "Ok" /\ DataIsFrame
    /\ ReachablePlaceholders(Receiver) # {}
    /\ \E n \in Reachable(Receiver) :
           /\ HasKind(Receiver, n, "DataFrameScan")
           /\ Receiver.lp_arena[n].output_schema # None
           /\ Receiver.lp_arena[n] # call.data
           /\ \E m \in Reachable(bound.plan) :
                  bound.plan.lp_arena[m] = Receiver.lp_arena[n]

(***************************************************************************)
(* C12.  The nodes reachable from the root of to_template(P) correspond    *)
(* one to one to the nodes reachable from the root of P: the template has  *)
(* as many reachable nodes as P, and a node that is an input of two        *)
(* parents in P is one node with two parents in the template.              *)
(***************************************************************************)
\* the nodes of the plan that are used as an input more than once
SharedNodes(plan) ==
    {n \in Reachable(plan) :
        \E u1, u2 \in InputUses(plan) :
            u1 # u2 /\ UsedHandle(plan, u1) = n /\ UsedHandle(plan, u2) = n}

\* the plan reaches no Invalid sentinel
NoInvalid(plan) == \A n \in Reachable(plan) : ~HasKind(plan, n, "Invalid")

C12_ReachableNodesOneToOne ==
    (ValidPlan(Self) /\ NoInvalid(Self) /\ template.tag = "Ok") =>
        /\ Cardinality(Reachable(template.plan)) = Cardinality(Reachable(Self))
        /\ \A pr \in PlanPairs(Self, template.plan) :
               pr[1] \in SharedNodes(Self) => pr[2] \in SharedNodes(template.plan)

(***************************************************************************)
(* The transforms one step at a time.  An invocation of to_template or     *)
(* bind_data is a stack of activations of convert_to_placeholder /         *)
(* replace_placeholder; an activation is the source node it was called on  *)
(* and the new handles its recursive calls have returned so far.  A step   *)
(* is one call (with its Arena::get) or one Arena::add with the return to  *)
(* the caller.  `gets` and `adds` record the source nodes in the order     *)
(* they were fetched and emitted.                                          *)
(***************************************************************************)
\* number of invocations that run at the same time
Invocations == 2

Activation(node) == [node |-> node, ins |-> <<>>]

IdleWalker ==
    [status |-> "idle", op |-> "none", data_node |-> 0, stack |-> <<>>,
     result |-> NoResult, gets |-> <<>>, adds |-> <<>>]

\* the calls an invocation can be: to_template(), bind_data(data_node, ..)
WalkOps ==
    {[op |-> "to_template", data_node |-> 0]}
    \cup {[op |-> "bind_data", data_node |-> d] : d \in 1..2}

\* a slip: the destination arena is one arena shared by the invocations
own_arena_shared(w) == 1

\* `let mut new_arena = Arena::with_capacity(..)`: a local of the invocation
own_arena(w) == w

\* a slip: the inputs are converted from the last to the first
next_input_from_right(ir, ins) == Inputs(ir)[Len(Inputs(ir)) - Len(ins)]

\* the input the activation recurses into next: the inputs in field order,
\* input lists front to back, ExtContext's input before its contexts
next_input(ir, ins) == Inputs(ir)[Len(ins) + 1]

\* the node an arm re-emits: the source's variant and payload with the new
\* input handles
with_inputs(ir, ins) ==
    CASE ir.kind \in SingleKinds -> [ir EXCEPT !.input = ins[1]]
      [] ir.kind \in PairKinds ->
           [ir EXCEPT !.input_left = ins[1], !.input_right = ins[2]]
      [] ir.kind \in ListKinds -> [ir EXCEPT !.inputs = ins]
      [] ir.kind = "ExtContext" ->
           [ir EXCEPT !.input = ins[1], !.contexts = Tail(ins)]
      [] OTHER -> ir

\* what an activation does once its recursive calls have returned
emit(op, ir, ins, data_node, arena) ==
    IF op = "to_template"
    THEN IF ir.kind = "DataFrameScan"
         THEN Done(ArenaAdd(arena, template_leaf(ir)))
         ELSE Done(ArenaAdd(arena, with_inputs(ir, ins)))
    ELSE IF ir.kind = "PlaceholderScan"
         THEN bind_placeholder(ir, data_node, data_arena, arena)
         ELSE Done(ArenaAdd(arena, with_inputs(ir, ins)))

Top(stack) == stack[Len(stack)]
Pop(stack) == SubSeq(stack, 1, Len(stack) - 1)

\* the caller's activation takes the handle its call returned
Returned(stack, node) ==
    [stack EXCEPT ![Len(stack)].ins = Append(stack[Len(stack)].ins, node)]

\* the invocation begins: a fresh destination arena, the call on the root
WalkStart(w) ==
    /\ walk[w].status = "idle"
    /\ \E o \in WalkOps :
        walk' = [walk EXCEPT ![w] =
                   IF InArena(lp_arena, lp_top)
                   THEN [status |-> "running", op |-> o.op, data_node |-> o.data_node,
                         stack |-> <<Activation(lp_top)>>, result |-> NoResult,
                         gets |-> <<lp_top>>, adds |-> <<>>]
                   ELSE [status |-> "done", op |-> o.op, data_node |-> o.data_node,
                         stack |-> <<>>, result |-> Panic,
                         gets |-> <<lp_top>>, adds |-> <<>>]]
    /\ new_arena' = [new_arena EXCEPT ![own_arena(w)] = <<>>]
    /\ UNCHANGED <<planVars, ewmVars>>

\* the top activation calls the transform on its next input
WalkCall(w) ==
    /\ walk[w].status = "running"
    /\ LET f == Top(walk[w].stack)
           ir == lp_arena[f.node]
       IN /\ Len(f.ins) < Len(Inputs(ir))
          /\ LET child == next_input(ir, f.ins) IN
             walk' = [walk EXCEPT ![w] =
                        IF InArena(lp_arena, child)
                        THEN [@ EXCEPT !.stack = Append(@, Activation(child)),
                                       !.gets = Append(@, child)]
                        ELSE [@ EXCEPT !.status = "done", !.stack = <<>>,
                                       !.result = Panic,
                                       !.gets = Append(@, child)]]
    /\ UNCHANGED new_arena
    /\ UNCHANGED <<planVars, ewmVars>>

\* the top activation adds its node to the destination arena and returns the
\* handle; the return of the root's activation ends the invocation
WalkEmit(w) ==
    /\ walk[w].status = "running"
    /\ LET f == Top(walk[w].stack)
           ir == lp_arena[f.node]
           r == emit(walk[w].op, ir, f.ins, walk[w].data_node,
                     new_arena[own_arena(w)])
           rest == Pop(walk[w].stack)
       IN /\ Len(f.ins) = Len(Inputs(ir))
          /\ r.st = "ok"
          /\ new_arena' = [new_arena EXCEPT ![own_arena(w)] = r.arena]
          /\ walk' = [walk EXCEPT ![w] =
                        IF rest = <<>>
                        THEN [@ EXCEPT !.status = "done", !.stack = <<>>,
                                       !.result = Ok(IRPlan(r.node, r.arena, expr_arena)),
                                       !.adds = Append(@, f.node)]
                        ELSE [@ EXCEPT !.stack = Returned(rest, r.node),
                                       !.adds = Append(@, f.node)]]
    /\ UNCHANGED <<planVars, ewmVars>>

\* a slip: the caller of the failed call swallows the Err and goes on with the
\* default handle
unwind_swallowed_by_caller(stack) ==
    IF Len(stack) = 1 THEN <<>> ELSE Returned(Pop(stack), 1)

\* the activations left after an Err: every caller returns it at once with `?`
unwind(stack) == <<>>

\* polars_bail! in the PlaceholderScan arm: the callers return the Err with `?`,
\* bind_data returns it and its destination arena is dropped
WalkFail(w) ==
    /\ walk[w].status = "running"
    /\ LET f == Top(walk[w].stack)
           ir == lp_arena[f.node]
           r == emit(walk[w].op, ir, f.ins, walk[w].data_node,
                     new_arena[own_arena(w)])
           rest == unwind(walk[w].stack)
       IN /\ Len(f.ins) = Len(Inputs(ir))
          /\ r.st # "ok"
          /\ walk' = [walk EXCEPT ![w] =
                        IF rest = <<>>
                        THEN [@ EXCEPT !.status = "done", !.stack = <<>>,
                                       !.result = IF r.st = "err" THEN Err(r.err)
                                                  ELSE Panic]
                        ELSE [@ EXCEPT !.stack = rest]]
          /\ new_arena' = IF rest = <<>>
                          THEN [new_arena EXCEPT ![own_arena(w)] = <<>>]
                          ELSE new_arena
    /\ UNCHANGED <<planVars, ewmVars>>

WalkNext ==
    \/ \E w \in DOMAIN walk : WalkStart(w)
    \/ \E w \in DOMAIN walk : WalkCall(w)
    \/ \E w \in DOMAIN walk : WalkEmit(w)
    \/ \E w \in DOMAIN walk : WalkFail(w)

\* the plans a single invocation is followed on
WalkInit ==
    /\ lp_arena \in SourceArenas
    /\ lp_top = IF lp_arena = <<>> THEN 1 ELSE Len(lp_arena)
    /\ expr_arena = SourceExprArena
    /\ data_arena = CallerDataArena
    /\ template = NoResult
    /\ call = NoCall
    /\ bound = NoResult
    /\ walk = [w \in 1..1 |-> IdleWalker]
    /\ new_arena = [w \in 1..1 |-> <<>>]
    /\ EwmUnused

WalkSpec == WalkInit /\ [][WalkNext]_vars

(***************************************************************************)
(* C13.  In both transforms, at every step, every input handle stored in a *)
(* node of the destination arena is smaller than the node's own handle,    *)
(* the inputs of a node were allocated left to right (the nodes are        *)
(* emitted in the order a depth-first, left-to-right walk of the source    *)
(* finishes them), and the returned root is the last entry added.          *)
(***************************************************************************)
IsPrefix(a, b) == Len(a) <= Len(b) /\ a = SubSeq(b, 1, Len(a))

\* no entry of the arena refers forward, and a node's inputs are in
\* allocation order
ChildrenFirst(arena) ==
    \A n \in DOMAIN arena :
        LET ins == Inputs(arena[n]) IN
        /\ \A i \in DOMAIN ins : ins[i] < n
        /\ \A i, j \in DOMAIN ins : i < j => ins[i] < ins[j]

C13_InputsAddedBeforeParent ==
    \A w \in DOMAIN walk :
        /\ ChildrenFirst(new_arena[w])
        /\ IsPrefix(walk[w].adds, VisitOrder(lp_arena, lp_top))
        /\ walk[w].status = "running" => Len(new_arena[w]) = Len(walk[w].adds)
        /\ walk[w].result.tag = "Ok" =>
               /\ walk[w].result.plan.lp_arena = new_arena[w]
               /\ walk[w].result.plan.lp_top = Len(new_arena[w])
               /\ walk[w].adds = VisitOrder(lp_arena, lp_top)

\* midway through a Join or MergeSorted of two different inputs, under either
\* transform: both inputs are in the destination arena, the node itself not yet
C13_Witness ==
    /\ InArena(lp_arena, lp_top)
    /\ NoInvalid(Self)
    /\ lp_arena[lp_top].kind \in PairKinds
    /\ lp_arena[lp_top].input_left > lp_arena[lp_top].input_right
    /\ walk[1].status = "running"
    /\ Len(walk[1].stack) = 1
    /\ Len(new_arena[1]) = 2

(***************************************************************************)
(* C14.  A transform whose traversal reaches the Invalid sentinel stops    *)
(* with an assertion failure: to_template of a plan that reaches Invalid   *)
(* panics, and no plan a bind returns reaches Invalid.                     *)
(***************************************************************************)
C14_InvalidStopsTheTransform ==
    /\ (ValidPlan(Self) /\ ~NoInvalid(Self) /\ template # NoResult) =>
           template = Panic
    /\ (BindCalled /\ ValidPlan(Receiver) /\ bound.tag = "Ok") =>
           NoInvalid(bound.plan)

(***************************************************************************)
(* C15.  bind_data aborts at the first failing PlaceholderScan in          *)
(* depth-first, left-to-right order: the nodes fetched are those the walk  *)
(* enters up to that placeholder, the nodes added those it finishes before *)
(* it, nothing is fetched or added afterwards, and the error returned is   *)
(* the one raised there (its expected count is that placeholder's).        *)
(***************************************************************************)
RECURSIVE PreOrder(_, _)
RECURSIVE PreOrderAll(_, _)

\* the handles in the order the walk from `node` enters them
PreOrder(arena, node) ==
    IF ~InArena(arena, node) THEN <<>>
    ELSE <<node>> \o PreOrderAll(arena, Inputs(arena[node]))

PreOrderAll(arena, nodes) ==
    IF nodes = <<>> THEN <<>>
    ELSE PreOrder(arena, Head(nodes)) \o PreOrderAll(arena, Tail(nodes))

\* the reachable placeholders at which a bind of `data` fails
FailingPlaceholders(plan, data) ==
    {n \in ReachablePlaceholders(plan) :
        \/ data.kind # "DataFrameScan"
        \/ Len(plan.lp_arena[n].schema) # Len(data.schema)}

\* the error raised at placeholder ir
ErrorAt(ir, data) ==
    IF data.kind # "DataFrameScan" THEN ComputeError
    ELSE SchemaMismatch(Len(ir.schema), Len(data.schema))

\* the first position of seq that holds an element of S
FirstIndex(seq, S) ==
    CHOOSE k \in DOMAIN seq : seq[k] \in S /\ \A j \in 1..(k - 1) : seq[j] \notin S

C15_AbortsAtFirstFailingPlaceholder ==
    \A w \in DOMAIN walk :
        (walk[w].op = "bind_data" /\ walk[w].status = "done" /\ ValidPlan(Self)) =>
            LET data == data_arena[walk[w].data_node]
                failing == FailingPlaceholders(Self, data)
                post == VisitOrder(lp_arena, lp_top)
                pre == PreOrder(lp_arena, lp_top)
            IN
            IF failing = {} THEN walk[w].result.tag = "Ok"
            ELSE /\ walk[w].result
                      = Err(ErrorAt(lp_arena[post[FirstIndex(post, failing)]], data))
                 /\ walk[w].adds = SubSeq(post, 1, FirstIndex(post, failing) - 1)
                 /\ walk[w].gets = SubSeq(pre, 1, FirstIndex(pre, failing))

\* a bind that failed at the first input of its root and never fetched the
\* second, a placeholder that would have failed with another count
C15_Witness ==
    /\ ValidPlan(Self) /\ NoInvalid(Self)
    /\ walk[1].op = "bind_data" /\ walk[1].status = "done"
    /\ walk[1].result.tag = "Err"
    /\ Len(Inputs(lp_arena[lp_top])) = 2
    /\ Inputs(lp_arena[lp_top])[2] \notin Range(walk[1].gets)
    /\ LET first == lp_arena[Inputs(lp_arena[lp_top])[1]]
           second == lp_arena[Inputs(lp_arena[lp_top])[2]]
       IN /\ first.kind = "PlaceholderScan" /\ second.kind = "PlaceholderScan"
          /\ Len(first.schema) # Len(second.schema)

(***************************************************************************)
(* Several invocations on one source plan, their steps interleaved.        *)
(***************************************************************************)
\* the variants of the plans the interleaved invocations run on
ConcKinds == {"DataFrameScan", "PlaceholderScan", "Cache", "Join", "Union"}

ConcArenas ==
    {a \in SourceArenas : \A n \in DOMAIN a : a[n].kind \in ConcKinds}

ConcInit ==
    /\ lp_arena \in ConcArenas
    /\ lp_top = IF lp_arena = <<>> THEN 1 ELSE Len(lp_arena)
    /\ expr_arena = SourceExprArena
    /\ data_arena = CallerDataArena
    /\ template = NoResult
    /\ call = NoCall
    /\ bound = NoResult
    /\ walk = [w \in 1..Invocations |-> IdleWalker]
    /\ new_arena = [w \in 1..Invocations |-> <<>>]
    /\ EwmUnused

ConcSpec == ConcInit /\ [][WalkNext]_vars

\* what the invocation returns when nothing else runs
Alone(walker) ==
    IF walker.op = "to_template" THEN to_template(Self)
    ELSE bind_data(Self, walker.data_node, data_arena)

\* the destination arena it has built when it returns or fails
AloneArena(walker) ==
    IF walker.op = "to_template"
    THEN convert_to_placeholder(lp_top, lp_arena, <<>>).arena
    ELSE replace_placeholder(lp_top, walker.data_node, data_arena, lp_arena, <<>>).arena

(***************************************************************************)
(* C16.  However the steps of the invocations on one source plan are       *)
(* interleaved, no step changes the source plan or the data arena, a step  *)
(* of one invocation changes no other invocation's destination arena,      *)
(* every destination arena is at every moment a prefix of the arena the    *)
(* invocation builds when run alone, and every invocation returns what it  *)
(* returns when run alone.                                                 *)
(***************************************************************************)
C16_InterleavedAsAlone ==
    [][/\ lp_top' = lp_top /\ lp_arena' = lp_arena /\ expr_arena' = expr_arena
       /\ data_arena' = data_arena
       /\ \A w \in DOMAIN walk :
            /\ walk'[w] # walk[w] =>
                   \A v \in DOMAIN walk \ {w} : new_arena'[v] = new_arena[v]
            /\ walk'[w].status = "running" =>
                   /\ IsPrefix(new_arena'[w], AloneArena(walk'[w]))
                   /\ Len(new_arena'[w]) = Len(walk'[w].adds)
            /\ walk'[w].status = "done" => walk'[w].result = Alone(walk'[w])]_vars

\* a to_template and a bind_data on the same plan, both midway, each with
\* entries of its own in its arena
C16_Witness ==
    /\ ValidPlan(Self) /\ NoInvalid(Self)
    /\ walk[1].status = "running" /\ walk[2].status = "running"
    /\ walk[1].op = "to_template" /\ walk[2].op = "bind_data"
    /\ Len(walk[1].stack) > 1 /\ Len(walk[2].stack) > 1
    /\ new_arena[1] # <<>> /\ new_arena[2] # <<>>
    /\ new_arena[1][1] # new_arena[2][1]

(***************************************************************************)
(* C17.  For every node that has inputs, both transforms emit a node of    *)
(* the same variant whose payload fields, the input handles aside, equal   *)
(* the source's (a Cache keeps its id through to_template and through      *)
(* bind), and whose input handles are those of its transformed inputs,     *)
(* never the source's own.                                                 *)
(***************************************************************************)
PayloadKept(p, q) ==
    /\ InStep(p, q)
    /\ ChildrenFirst(q.lp_arena)
    /\ \A pr \in PlanPairs(p, q) :
           p.lp_arena[pr[1]].kind \notin LeafKinds =>
               SameButInputs(p.lp_arena[pr[1]], q.lp_arena[pr[2]])

C17_PayloadOfNodesWithInputsKept ==
    /\ template.tag = "Ok" => PayloadKept(Self, template.plan)
    /\ (BindCalled /\ bound.tag = "Ok") => PayloadKept(Receiver, bound.plan)

\* a Cache above a DataFrameScan, templated and bound again, its id kept by
\* both, its input handle not the source's
C17_Witness ==
    /\ template.tag = "Ok" /\ bound.tag = "Ok" /\ call.on = "template"
    /\ HasKind(Self, lp_top, "Cache")
    /\ HasKind(Self, lp_arena[lp_top].input, "DataFrameScan")
    /\ lp_arena[lp_top].input = 2
    /\ bound.plan.lp_arena[bound.plan.lp_top].kind = "Cache"
    /\ bound.plan.lp_arena[bound.plan.lp_top].id = lp_arena[lp_top].id
    /\ bound.plan.lp_arena[bound.plan.lp_top].input = 1

(***************************************************************************)
(* C18.  bind_to_df(df) binds the one node of a data arena it builds,      *)
(* DataFrameScan{df, schema = df.schema(), output_schema = None}: it never *)
(* fails with the invalid-bind-target error, and every leaf it puts in     *)
(* place of a PlaceholderScan has output_schema None, whatever             *)
(* output_schema the placeholder recorded.                                 *)
(***************************************************************************)
\* the node bind_to_df is documented to bind
FrameLeaf(df) == DataFrameScan(df, DfSchema(df), None)

C18_BindToDfBindsUnprojectedFrame ==
    call.op = "bind_to_df" =>
        /\ bound = bind_data(Receiver, 1, <<FrameLeaf(call.data.df)>>)
        /\ bound # Err(ComputeError)
        /\ bound.tag = "Ok" =>
               \A pr \in PlanPairs(Receiver, bound.plan) :
                   HasKind(Receiver, pr[1], "PlaceholderScan") =>
                       /\ bound.plan.lp_arena[pr[2]] = FrameLeaf(call.data.df)
                       /\ bound.plan.lp_arena[pr[2]].output_schema = None

\* a bind_to_df that replaced a placeholder which recorded a projection
C18_Witness ==
    /\ call.op = "bind_to_df" /\ bound.tag = "Ok"
    /\ \E pr \in PlanPairs(Receiver, bound.plan) :
           /\ HasKind(Receiver, pr[1], "PlaceholderScan")
           /\ Receiver.lp_arena[pr[1]].output_schema # None
           /\ bound.plan.lp_arena[pr[2]].output_schema = None

(***************************************************************************)
(* EwmMeanState (crates/polars-arrow/src/legacy/kernels/ewm/average.rs).   *)
(* The floats T are modelled as exact fractions <<numerator, denominator>> *)
(* in lowest terms with a positive denominator; an Option<T> is None or    *)
(* Some(fraction).                                                         *)
(***************************************************************************)
\* largest min_periods a state is made with
MaxMinPeriods == 2
\* most inputs given to one state over all its updates
MaxLen == 4
\* most inputs given to one update call
MaxBatch == 2

RECURSIVE Gcd(_, _)
Gcd(a, b) == IF b = 0 THEN a ELSE Gcd(b, a % b)

Abs(n) == IF n < 0 THEN -n ELSE n

Max(a, b) == IF a >= b THEN a ELSE b

Frac(n, d) ==
    LET g == Gcd(Abs(n), Abs(d))
        sign == IF d < 0 THEN -1 ELSE 1
    IN <<(sign * n) \div g, (sign * d) \div g>>

Zero == Frac(0, 1)
One == Frac(1, 1)

FAdd(x, y) == Frac(x[1] * y[2] + y[1] * x[2], x[2] * y[2])
FSub(x, y) == Frac(x[1] * y[2] - y[1] * x[2], x[2] * y[2])
FMul(x, y) == Frac(x[1] * y[1], x[2] * y[2])
FDiv(x, y) == Frac(x[1] * y[2], x[2] * y[1])

\* const ALPHA: f64 = 0.5
Alpha == Frac(1, 2)

\* the inputs of an update: null, 1.0 and 3.0
EwmValues == {None, Some(Frac(1, 1)), Some(Frac(3, 1))}

\* EwmMeanState::new
EwmMeanState_new(alpha, adjust, min_periods, ignore_nulls) ==
    [weighted_mean |-> Zero, weight |-> Zero, alpha |-> alpha, non_null_count |-> 0,
     adjust |-> adjust, min_periods |-> Max(min_periods, 1),
     ignore_nulls |-> ignore_nulls]

\* the closure of update_iter, up to its last expression: the state after opt_v
ewm_step(st, opt_v, new_value_weight) ==
    IF st.non_null_count = 0 /\ opt_v # None
    THEN [st EXCEPT !.non_null_count = 1, !.weighted_mean = opt_v[1], !.weight = One]
    ELSE LET decayed == IF opt_v # None \/ ~st.ignore_nulls
                        THEN FMul(st.weight, FSub(One, st.alpha))
                        ELSE st.weight
         IN
         IF opt_v = None THEN [st EXCEPT !.weight = decayed]
         ELSE LET new_weight == FAdd(decayed, new_value_weight) IN
              [st EXCEPT
                 !.weighted_mean =
                     FAdd(st.weighted_mean,
                          FMul(FSub(opt_v[1], st.weighted_mean),
                               FDiv(new_value_weight, new_weight))),
                 !.weight = IF st.adjust THEN FAdd(decayed, One) ELSE One,
                 !.non_null_count = @ + 1]

\* a slip in the closure's last expression: `>` for `>=`
ewm_output_after_min_periods(st, opt_v) ==
    IF opt_v # None /\ st.non_null_count > st.min_periods
    THEN Some(st.weighted_mean)
    ELSE None

\* the closure's last expression: the output for opt_v, st the state after it
ewm_output(st, opt_v) ==
    IF opt_v # None /\ st.non_null_count >= st.min_periods
    THEN Some(st.weighted_mean)
    ELSE None

RECURSIVE update_fold(_, _, _)
update_fold(st, values, new_value_weight) ==
    IF values = <<>> THEN [state |-> st, out |-> <<>>]
    ELSE LET next == ewm_step(st, Head(values), new_value_weight)
             rest == update_fold(next, Tail(values), new_value_weight)
         IN [state |-> rest.state,
             out |-> <<ewm_output(next, Head(values))>> \o rest.out]

\* EwmMeanState::update_iter, its iterator consumed to the end (as update and
\* ewm_mean do with collect())
update_iter(st, values) ==
    update_fold(st, values, IF st.adjust THEN One ELSE st.alpha)

\* ewm_mean
ewm_mean(values, alpha, adjust, min_periods, ignore_nulls) ==
    update_iter(EwmMeanState_new(alpha, adjust, min_periods, ignore_nulls), values).out

EwmInit ==
    /\ lp_arena = <<>>
    /\ lp_top = 1
    /\ expr_arena = SourceExprArena
    /\ data_arena = CallerDataArena
    /\ template = NoResult
    /\ call = NoCall
    /\ bound = NoResult
    /\ walk = <<>>
    /\ new_arena = <<>>
    /\ EwmUnused

\* EwmMeanState::new(alpha, adjust, min_periods, ignore_nulls)
EwmNew ==
    /\ state = NoEwm
    /\ \E adjust \in BOOLEAN, ignore_nulls \in BOOLEAN, min_periods \in 0..MaxMinPeriods :
        /\ ewm_args' = [made |-> TRUE, alpha |-> Alpha, adjust |-> adjust,
                        min_periods |-> min_periods, ignore_nulls |-> ignore_nulls]
        /\ state' = EwmMeanState_new(Alpha, adjust, min_periods, ignore_nulls)
    /\ UNCHANGED <<xs, out, planVars, walkVars>>

\* state.update(values)
EwmUpdate ==
    /\ state # NoEwm
    /\ \E values \in SeqsOfLen(EwmValues, 1, MaxBatch) :
        /\ Len(xs) + Len(values) <= MaxLen
        /\ LET r == update_iter(state, values) IN
           /\ state' = r.state
           /\ out' = out \o r.out
        /\ xs' = xs \o values
    /\ UNCHANGED <<ewm_args, planVars, walkVars>>

EwmNext == EwmNew \/ EwmUpdate

EwmSpec == EwmInit /\ [][EwmNext]_vars

(***************************************************************************)
(* C19.  Over the updates of one state, the k-th output is non-null        *)
(* exactly when the k-th input is non-null and at least                    *)
(* max(min_periods, 1) non-null inputs have been seen up to and including  *)
(* it; so min_periods 0 gives the null pattern of min_periods 1, and with  *)
(* min_periods 2 the output at the first non-null input is null.           *)
(***************************************************************************)
NonNullSoFar(k) == Cardinality({i \in 1..k : xs[i] # None})

NullPattern(seq) == [i \in DOMAIN seq |-> seq[i] = None]

C19_EwmNullPattern ==
    state # NoEwm =>
        /\ Len(out) = Len(xs)
        /\ \A k \in DOMAIN out :
               out[k] # None <=>
                   /\ xs[k] # None
                   /\ NonNullSoFar(k) >= Max(ewm_args.min_periods, 1)
        /\ ewm_args.min_periods = 0 =>
               NullPattern(out)
                 = NullPattern(ewm_mean(xs, ewm_args.alpha, ewm_args.adjust, 1,
                                        ewm_args.ignore_nulls))
        /\ ewm_args.min_periods = 2 =>
               \A k \in DOMAIN out :
                   (xs[k] # None /\ NonNullSoFar(k) = 1) => out[k] = None

\* min_periods 2: a null, then the first non-null input with a null output,
\* then, in a later update, the second with a non-null output
C19_Witness ==
    /\ state # NoEwm
    /\ ewm_args.min_periods = 2
    /\ Len(xs) = 3
    /\ xs[1] = None /\ xs[2] # None /\ xs[3] # None
    /\ out[2] = None /\ out[3] # None

(***************************************************************************)
(* C20.  The IR arena of the plan to_template returns, and of the plan a   *)
(* successful bind returns, holds no garbage: every entry is reachable     *)
(* from the returned root and is the copy of a source node reachable from  *)
(* the source's root, in the order the walk finishes them.  An entry of    *)
(* the source arena that the root does not reach is neither copied nor     *)
(* validated: a bind at whose reachable placeholders nothing fails         *)
(* succeeds, whatever unreachable placeholders the template arena holds.   *)
(***************************************************************************)
\* q's arena is, entry by entry, the nodes the walk of p finishes
CopyOfReachable(p, q) ==
    LET order == VisitOrder(p.lp_arena, p.lp_top) IN
    /\ Reachable(q) = DOMAIN q.lp_arena
    /\ Len(q.lp_arena) = Len(order)
    /\ \A i \in DOMAIN order :
           LET a == p.lp_arena[order[i]]
               b == q.lp_arena[i]
           IN IF a.kind \in LeafKinds THEN b.kind \in LeafKinds
              ELSE SameButInputs(a, b)

C20_NoGarbageInNewArena ==
    /\ template.tag = "Ok" => CopyOfReachable(Self, template.plan)
    /\ (BindCalled /\ bound.tag = "Ok") => CopyOfReachable(Receiver, bound.plan)
    /\ (BindCalled /\ ValidPlan(Receiver)
        /\ FailingPlaceholders(Receiver, call.data) = {}) => bound.tag = "Ok"

\* a successful bind of a template whose arena holds, out of the root's reach,
\* a placeholder with another column count than the data's
C20_Witness ==
    /\ BindCalled /\ bound.tag = "Ok" /\ DataIsFrame
    /\ NoInvalid(Receiver)
    /\ ReachablePlaceholders(Receiver) # {}
    /\ Len(bound.plan.lp_arena) < Len(Receiver.lp_arena)
    /\ \E n \in DOMAIN Receiver.lp_arena \ Reachable(Receiver) :
           /\ HasKind(Receiver, n, "PlaceholderScan")
           /\ Len(Receiver.lp_arena[n].schema) # Len(call.data.schema)

====
